---- MODULE Spec2Model ----
(***************************************************************************)
(* Model of backend/main.py: the sensor ingestion handler                  *)
(* (record_sensor_data) with the validation of its request body, the        *)
(* shared AnomalyDetector, the SQLite tables it reads and writes, the       *)
(* WebSocket ConnectionManager, the alert and maintenance routes, and the   *)
(* background task generate_sensor_data.                                    *)
(*                                                                         *)
(* Conventions                                                             *)
(*  - A confidence is kept in tenths of a point: 0.5 is 5, 50 is 500,       *)
(*    85 is 850, 100 is 1000.  A raw score of the forest is kept in         *)
(*    thousandths: -0.15 is -150.                                           *)
(*  - A sensor value is kept in tenths, the precision the generator rounds *)
(*    to: 80 is 800, 7 is 70, 140 is 1400.                                  *)
(*  - Optional[float] is a sequence: <<>> is None, <<v>> is the value v.    *)
(*  - Rows of a table are kept in insertion order; timestamps come from     *)
(*    datetime.now() and are taken as strictly increasing, so insertion     *)
(*    order is timestamp order.  A row id is the row's position.            *)
(*  - IsolationForest and StandardScaler are not computed: a fitted         *)
(*    detector is represented by the data it was fitted on, and its output  *)
(*    for a sample is any value in the range the library can return.        *)
(***************************************************************************)
EXTENDS Integers, Sequences, FiniteSets, TLC

\* ---------------------------------------------------------------- bounds
\* handler invocations explored after start-up
MaxIngest == 2
\* WebSocket objects that may ever connect while the fan-out is explored
MaxObservers == 3
\* handler invocations explored while the fan-out is explored
FanoutIngest == 1
\* maintenance tasks created
MaxMaintenance == 1
\* readings the generator stores: one cycle of six and the start of the next
MaxGenerated == 7

\* ------------------------------------------------------ program constants
\* LIMIT 200 of the training query
WindowLimit == 200
\* len(historical_data) >= 20 in record_sensor_data
RetrainGate == 20
\* len(data) < 10 in AnomalyDetector.train
MinTrainSamples == 10
\* confidence > 85, in tenths
CriticalThreshold == 850
\* iteration % 20 == 0 in generate_sensor_data
SpikePeriod == 20
\* predictions_last_month * 3500 in get_dashboard_stats
SavingsPerPrediction == 3500
\* return 0, 0.5 of an unfitted detector, in tenths
UntrainedConfidence == 5

\* ------------------------------------------------------------ input sets
\* ids of the rows seed_initial_data inserts
EquipmentIds == 1..6
\* equipment_id values submitted: two seeded units and one id with no row
InputIds == {1, 5, 7}
\* in-flight callers of record_sensor_data (HTTP requests, the generator)
Callers == {1, 2}
WebSockets == 1..MaxObservers
\* rows of unit 1 already in maintenance.db when the process starts
PreloadCounts == {0, 18, 200}
\* raw scores score_samples may return, in thousandths
Scores == {-150, -140}
\* random.randint(1, 7): the horizon explored
HorizonDays == {7}

\* base_params[4] of the generator, without noise: a unit with no pressure
Baseline ==
  [temperature |-> 580, vibration |-> 15, pressure |-> <<>>,
   power_consumption |-> 450, efficiency |-> 950]
\* base_params[1] of the generator with a spike of +15, +4.5, +25 and -15
Spiked ==
  [temperature |-> 900, vibration |-> 80, pressure |-> <<1450>>,
   power_consumption |-> 850, efficiency |-> 770]
Samples == {Baseline, Spiked}

\* equipment_ids of the generator
EquipmentOrder == <<1, 2, 3, 4, 5, 6>>

\* base_params of the generator, in tenths
BaseParams ==
  <<[temperature |-> 750, vibration |-> 35, pressure |-> <<1200>>,
     power_consumption |-> 850, efficiency |-> 920],
    [temperature |-> 680, vibration |-> 28, pressure |-> <<950>>,
     power_consumption |-> 780, efficiency |-> 940],
    [temperature |-> 650, vibration |-> 20, pressure |-> <<1100>>,
     power_consumption |-> 880, efficiency |-> 960],
    [temperature |-> 580, vibration |-> 15, pressure |-> <<>>,
     power_consumption |-> 450, efficiency |-> 950],
    [temperature |-> 720, vibration |-> 32, pressure |-> <<1250>>,
     power_consumption |-> 920, efficiency |-> 910],
    [temperature |-> 620, vibration |-> 23, pressure |-> <<>>,
     power_consumption |-> 550, efficiency |-> 970]>>

\* the reading the generator builds for a unit in a cycle, each random
\* term at the middle of its range: no noise, and on a spike +15, +4.5,
\* +25 (when the unit has a pressure) and -15
GeneratedReading(eq_id, iteration) ==
  LET b == BaseParams[eq_id]
  IN  IF eq_id \in {1, 5} /\ iteration % SpikePeriod = 0
      THEN [temperature |-> b.temperature + 150,
            vibration |-> b.vibration + 45,
            pressure |-> IF b.pressure = <<>> THEN <<>> ELSE <<b.pressure[1] + 250>>,
            power_consumption |-> b.power_consumption,
            efficiency |-> b.efficiency - 150]
      ELSE b

Min(a, b) == IF a < b THEN a ELSE b
Max(a, b) == IF a > b THEN a ELSE b
Abs(x) == IF x < 0 THEN -x ELSE x

VARIABLES
  equipment,           \* equipment.status by id
  sensor_readings,     \* table sensor_readings
  predictions,         \* table predictions
  alerts,              \* table alerts
  anomaly_detector,    \* the global AnomalyDetector
  active_connections,  \* manager.active_connections
  ws,                  \* position of each websocket_endpoint task
  task,                \* position of each record_sensor_data call
  last,                \* locals of the most recent record_sensor_data call
  clock,               \* datetime.now(), counted in handler invocations
  generator,           \* position and locals of the generate_sensor_data task
  maintenance_schedule \* table maintenance_schedule

vars ==
  <<equipment, sensor_readings, predictions, alerts, anomaly_detector,
    active_connections, ws, task, last, clock, generator, maintenance_schedule>>

\* ------------------------------------------------------------- the model

\* pressure or 0 / COALESCE(pressure, 0)
PressureOrZero(p) == IF p = <<>> THEN 0 ELSE p[1]

\* the row of five numbers fed to the detector
FeatureVector(f) ==
  <<f.temperature, f.vibration, PressureOrZero(f.pressure),
    f.power_consumption, f.efficiency>>

\* HistoricalData with the LIMIT left out
HistoricalDataNoLimit(rows, id) ==
  LET own == SelectSeq(rows, LAMBDA r : r.equipment_id = id)
      n == Len(own)
  IN  [i \in 1..n |-> FeatureVector(own[n + 1 - i].features)]

\* HistoricalData that leaves out the newest row when the unit already has
\* a row with the same values
HistoricalDataDistinct(rows, id) ==
  LET own == SelectSeq(rows, LAMBDA r : r.equipment_id = id)
      n == Len(own)
      m == IF \E j \in 1..(n - 1) : own[j].features = own[n].features
           THEN n - 1 ELSE n
  IN  [i \in 1..Min(m, WindowLimit) |-> FeatureVector(own[m + 1 - i].features)]

\* HistoricalData read before the call's own INSERT
HistoricalDataStale(rows, id) ==
  LET own == SelectSeq(rows, LAMBDA r : r.equipment_id = id)
      n == Len(own) - 1
  IN  [i \in 1..Min(n, WindowLimit) |-> FeatureVector(own[n + 1 - i].features)]

\* SELECT ... WHERE equipment_id = ? ORDER BY timestamp DESC LIMIT 200
HistoricalData(rows, id) ==
  LET own == SelectSeq(rows, LAMBDA r : r.equipment_id = id)
      n == Len(own)
  IN  [i \in 1..Min(n, WindowLimit) |-> FeatureVector(own[n + 1 - i].features)]

\* AnomalyDetector.__init__
NewDetector == [is_trained |-> FALSE, fitted_on |-> <<>>]

\* Train without its minimum sample count
TrainNoMinimum(det, data) == [is_trained |-> TRUE, fitted_on |-> data]

\* AnomalyDetector.train: the detector after the call
Train(det, data) ==
  IF Len(data) < MinTrainSamples
  THEN det
  ELSE [is_trained |-> TRUE, fitted_on |-> data]

\* RetrainIfDue that fits once and never again
RetrainOnce(det, data) ==
  IF Len(data) >= RetrainGate /\ ~det.is_trained
  THEN [is_trained |-> TRUE, fitted_on |-> data]
  ELSE det

\* RetrainIfDue on the window as it was before the call's own INSERT
RetrainBeforePersist(det, data) ==
  IF Len(data) >= RetrainGate THEN Train(det, Tail(data)) ELSE det

\* if len(historical_data) >= 20: anomaly_detector.train(historical_data)
RetrainIfDue(det, data) ==
  IF Len(data) >= RetrainGate THEN Train(det, data) ELSE det

\* max(0, min(100, (1 - abs(score)) * 100)), in tenths
Confidence(score) == Max(0, Min(1000, 1000 - Abs(score)))

\* AnomalyDetector.predict: the (prediction, confidence) pairs it may return
Predict(det, data) ==
  IF ~det.is_trained
  THEN {<<0, UntrainedConfidence>>}
  ELSE {<<p, Confidence(s)>> : p \in {1, -1}, s \in Scores}

\* Classify with >= in place of >
ClassifyAtLeast(prediction, confidence) ==
  IF prediction = -1
  THEN IF confidence >= CriticalThreshold
       THEN [status |-> "critical", severity |-> <<"critical">>]
       ELSE [status |-> "warning", severity |-> <<"warning">>]
  ELSE [status |-> "healthy", severity |-> <<>>]

\* status and severity chosen for a verdict (severity <<>> when unset)
Classify(prediction, confidence) ==
  IF prediction = -1
  THEN IF confidence > CriticalThreshold
       THEN [status |-> "critical", severity |-> <<"critical">>]
       ELSE [status |-> "warning", severity |-> <<"warning">>]
  ELSE [status |-> "healthy", severity |-> <<>>]

\* GenerateRecommendation as an if / elif chain: the first rule that holds
GenerateRecommendationFirstOnly(f, status) ==
  IF f.temperature > 800
  THEN <<"Temperature exceeds normal range. Check cooling system.">>
  ELSE IF f.vibration > 70
  THEN <<"High vibration detected. Inspect bearings and alignment.">>
  ELSE IF f.pressure # <<>> /\ f.pressure[1] # 0 /\ f.pressure[1] > 1400
  THEN <<"Pressure levels elevated. Check seals and valves.">>
  ELSE IF f.efficiency < 800
  THEN <<"Efficiency below optimal. Schedule maintenance.">>
  ELSE IF status = "critical"
  THEN <<"Multiple parameters show concerning trends. Immediate inspection recommended.">>
  ELSE <<"Minor deviation detected. Monitor closely.">>

\* generate_recommendation: the notes, in order, that are joined by " "
GenerateRecommendation(f, status) ==
  LET rules ==
        (IF f.temperature > 800
           THEN <<"Temperature exceeds normal range. Check cooling system.">>
           ELSE <<>>)
        \o (IF f.vibration > 70
              THEN <<"High vibration detected. Inspect bearings and alignment.">>
              ELSE <<>>)
        \o (IF f.pressure # <<>> /\ f.pressure[1] # 0 /\ f.pressure[1] > 1400
              THEN <<"Pressure levels elevated. Check seals and valves.">>
              ELSE <<>>)
        \o (IF f.efficiency < 800
              THEN <<"Efficiency below optimal. Schedule maintenance.">>
              ELSE <<>>)
  IN  IF rules # <<>> THEN rules
      ELSE IF status = "critical"
      THEN <<"Multiple parameters show concerning trends. Immediate inspection recommended.">>
      ELSE <<"Minor deviation detected. Monitor closely.">>

\* UpdateStatus that writes only over healthy
UpdateStatusOnlyFromHealthy(eq, id, prediction, status) ==
  IF prediction = -1 /\ id \in DOMAIN eq /\ eq[id] = "healthy"
  THEN [eq EXCEPT ![id] = status]
  ELSE eq

\* UpdateStatus that never lowers critical to warning
UpdateStatusNoDowngrade(eq, id, prediction, status) ==
  IF prediction = -1 /\ id \in DOMAIN eq /\ ~(eq[id] = "critical" /\ status = "warning")
  THEN [eq EXCEPT ![id] = status]
  ELSE eq

\* UpdateStatus that writes the status of every verdict
UpdateStatusAlways(eq, id, prediction, status) ==
  IF id \in DOMAIN eq THEN [eq EXCEPT ![id] = status] ELSE eq

\* if prediction == -1: ... UPDATE equipment SET status = ? WHERE id = ?
UpdateStatus(eq, id, prediction, status) ==
  IF prediction = -1 /\ id \in DOMAIN eq
  THEN [eq EXCEPT ![id] = status]
  ELSE eq

\* list.remove for each entry of disconnected, in order; ok is FALSE when
\* an entry is no longer in the list (ValueError), and the rest stay
RECURSIVE Prune(_, _)
Prune(conns, disconnected) ==
  IF disconnected = <<>>
  THEN [conns |-> conns, ok |-> TRUE]
  ELSE LET w == Head(disconnected)
       IN  IF \E i \in 1..Len(conns) : conns[i] = w
           THEN LET k == CHOOSE i \in 1..Len(conns) :
                           conns[i] = w /\ \A j \in 1..(i - 1) : conns[j] # w
                IN  Prune([i \in 1..(Len(conns) - 1) |->
                             IF i < k THEN conns[i] ELSE conns[i + 1]],
                          Tail(disconnected))
           ELSE [conns |-> conns, ok |-> FALSE]

\* Advance that leaves the loop at the first failed delivery
AdvanceStopOnFailure(t, conns) ==
  IF t.idx < Len(conns) /\ t.disconnected = <<>>
  THEN [task |-> [t EXCEPT !.idx = @ + 1,
                           !.connection = conns[t.idx + 1],
                           !.attempted = Append(@, conns[t.idx + 1])],
        conns |-> conns]
  ELSE LET p == Prune(conns, t.disconnected)
       IN  [task |-> [t EXCEPT !.pc = IF p.ok THEN "returned" ELSE "raised",
                               !.ended = p.conns],
            conns |-> p.conns]

\* ConnectionManager.broadcast between two suspension points: the for loop
\* takes its next connection from the live list by position, or, past the
\* end of the list, the failed connections are removed and the call ends
Advance(t, conns) ==
  IF t.idx < Len(conns)
  THEN [task |-> [t EXCEPT !.idx = @ + 1,
                           !.connection = conns[t.idx + 1],
                           !.attempted = Append(@, conns[t.idx + 1])],
        conns |-> conns]
  ELSE LET p == Prune(conns, t.disconnected)
       IN  [task |-> [t EXCEPT !.pc = IF p.ok THEN "returned" ELSE "raised",
                               !.ended = p.conns],
            conns |-> p.conns]

\* a caller slot before any call
IdleTask ==
  [pc |-> "idle", idx |-> 0, connection |-> 0, disconnected |-> <<>>,
   message |-> <<>>, response |-> <<>>,
   registered |-> <<>>, attempted |-> <<>>, interfered |-> FALSE, ended |-> <<>>]

\* the slot of a call that broadcasts nothing and returns
ReturnedTask(response) == [IdleTask EXCEPT !.pc = "returned", !.response = <<response>>]

\* the slot of a call whose handler raised before its commit
RaisedTask == [IdleTask EXCEPT !.pc = "raised"]

\* await manager.broadcast(message), up to its first suspension point
StartBroadcast(message, response, conns) ==
  Advance([IdleTask EXCEPT !.pc = "sending", !.message = <<message>>,
                           !.response = <<response>>, !.registered = conns],
          conns)

\* every pass in flight other than c's sees the list change under it
Interfere(tk, c, changed) ==
  [d \in DOMAIN tk |->
     IF d # c /\ changed /\ tk[d].pc = "sending"
     THEN [tk[d] EXCEPT !.interfered = TRUE]
     ELSE tk[d]]

NoCall ==
  [op |-> "none", caller |-> 0, equipment_id |-> 0, features |-> Baseline,
   historical_data |-> <<>>, prediction |-> 0, confidence |-> 0,
   status |-> "healthy", severity |-> <<>>, alert_created |-> FALSE,
   raised |-> FALSE, status_before |-> "healthy"]

\* the training window and the detector that serve a unit: the window is
\* the unit's own rows, the detector is the one global object
ModelStateOf(id) ==
  [window |-> HistoricalData(sensor_readings, id),
   is_trained |-> anomaly_detector.is_trained,
   scorer |-> anomaly_detector.fitted_on]

\* a new call takes the first caller slot that is not in flight
FreeSlot(c) ==
  /\ task[c].pc # "sending"
  /\ \A d \in Callers : task[d].pc # "sending" => ~(d < c)

\* generate_sensor_data before its first step: iteration = 0, and the for
\* loop not yet entered; submitted and failed describe its latest call of
\* record_sensor_data (0: none yet)
GeneratorStart ==
  [pc |-> "startup", idx |-> 1, iteration |-> 0, caller |-> 0, submitted |-> 0,
   failed |-> FALSE]

\* the process has just started: the detector is unfitted and nobody is
\* connected; maintenance.db is either new or left by an earlier run that
\* stored readings of unit 1 and raised no alert
Init ==
  /\ equipment = [e \in EquipmentIds |-> "healthy"]
  /\ \E n \in PreloadCounts :
       sensor_readings =
         [i \in 1..n |->
            [equipment_id |-> 1, timestamp |-> i - n,
             features |-> IF i % 2 = 0 THEN Baseline ELSE Spiked]]
  /\ predictions = <<>>
  /\ alerts = <<>>
  /\ anomaly_detector = NewDetector
  /\ active_connections = <<>>
  /\ ws = [w \in WebSockets |-> "unopened"]
  /\ task = [c \in Callers |-> IdleTask]
  /\ last = NoCall
  /\ clock = 0
  /\ generator = GeneratorStart
  /\ maintenance_schedule = <<>>

\* record_sensor_data, from its entry to its first suspension point
RecordSensorDataCall(c, id, f) ==
  /\ FreeSlot(c)
  /\ clock' = clock + 1
  /\ LET timestamp == clock + 1
         rows == Append(sensor_readings,
                        [equipment_id |-> id, timestamp |-> timestamp, features |-> f])
         historical_data == HistoricalData(rows, id)
         det == RetrainIfDue(anomaly_detector, historical_data)
     IN  /\ anomaly_detector' = det
         /\ \E verdict \in Predict(det, FeatureVector(f)) :
              LET prediction == verdict[1]
                  confidence == verdict[2]
                  cls == Classify(prediction, confidence)
                  recommendation == GenerateRecommendation(f, cls.status)
                  locals ==
                    [op |-> "ingest", caller |-> c, equipment_id |-> id, features |-> f,
                     historical_data |-> historical_data,
                     prediction |-> prediction, confidence |-> confidence,
                     status |-> cls.status, severity |-> cls.severity,
                     alert_created |-> FALSE, raised |-> FALSE,
                     status_before |-> IF id \in DOMAIN equipment
                                       THEN equipment[id] ELSE "none"]
                  response ==
                    [status |-> "success", anomaly_detected |-> (prediction = -1),
                     confidence |-> confidence, equipment_status |-> cls.status]
              IN  IF prediction # -1
                  THEN \* conn.commit() with the reading alone
                       /\ sensor_readings' = rows
                       /\ task' = [task EXCEPT ![c] = ReturnedTask(response)]
                       /\ equipment' = UpdateStatus(equipment, id, prediction, cls.status)
                       /\ last' = locals
                       /\ UNCHANGED <<predictions, alerts, active_connections>>
                  ELSE IF id \notin DOMAIN equipment
                  THEN \* cursor.fetchone()[0] on None raises; nothing is committed
                       /\ task' = [task EXCEPT ![c] = RaisedTask]
                       /\ last' = [locals EXCEPT !.raised = TRUE]
                       /\ UNCHANGED <<equipment, sensor_readings, predictions, alerts,
                                      active_connections>>
                  ELSE \E days \in HorizonDays :
                       LET b == StartBroadcast(
                                  [type |-> "alert", equipment_id |-> id,
                                   status |-> cls.status, confidence |-> confidence],
                                  response, active_connections)
                       IN  /\ sensor_readings' = rows
                           /\ predictions' =
                                Append(predictions,
                                  [equipment_id |-> id, timestamp |-> timestamp,
                                   prediction_type |-> "anomaly_detected",
                                   confidence |-> confidence,
                                   predicted_failure_days |-> days,
                                   recommendation |-> recommendation])
                           /\ alerts' =
                                Append(alerts,
                                  [equipment_id |-> id, timestamp |-> timestamp,
                                   severity |-> cls.severity[1],
                                   description |-> recommendation,
                                   acknowledged |-> 0])
                           /\ equipment' = UpdateStatus(equipment, id, prediction, cls.status)
                           /\ last' = [locals EXCEPT !.alert_created = TRUE]
                           /\ active_connections' = b.conns
                           /\ task' = [task EXCEPT ![c] = b.task]
  /\ UNCHANGED <<ws, maintenance_schedule>>

\* record_sensor_data called by the route POST /api/sensor-data
RecordSensorData(c, id, f) ==
  RecordSensorDataCall(c, id, f) /\ UNCHANGED generator

\* the fields of SensorReading declared without a default
RequiredFields ==
  {"equipment_id", "temperature", "vibration", "power_consumption", "efficiency"}

\* every field of SensorReading
ReadingFields == RequiredFields \cup {"pressure"}

\* the JSON body that carries all six fields
Body(id, f) ==
  [equipment_id |-> <<id>>, temperature |-> <<f.temperature>>,
   vibration |-> <<f.vibration>>, pressure |-> f.pressure,
   power_consumption |-> <<f.power_consumption>>, efficiency |-> <<f.efficiency>>]

\* a body with one key left out
Without(body, field) == [body EXCEPT ![field] = <<>>]

\* Validate that also demands pressure
ValidateStrict(body) == \A k \in ReadingFields : body[k] # <<>>

\* pydantic's check of the body against SensorReading: a field with no
\* default must be there; pressure defaults to None
Validate(body) == \A k \in RequiredFields : body[k] # <<>>

\* the SensorReading built from a valid body
ParseReading(body) ==
  [temperature |-> body.temperature[1], vibration |-> body.vibration[1],
   pressure |-> body.pressure, power_consumption |-> body.power_consumption[1],
   efficiency |-> body.efficiency[1]]

\* the slot of a request answered 422 before the handler was called
RejectedTask == [IdleTask EXCEPT !.pc = "rejected"]

\* the statements of record_sensor_data that go to SQLite, in order
PersistenceSteps ==
  <<"insert_reading", "select_window", "insert_prediction", "select_name",
    "insert_alert", "update_equipment", "commit">>

\* the position of a statement in PersistenceSteps
StepIndex(step) == CHOOSE i \in 1..Len(PersistenceSteps) : PersistenceSteps[i] = step

\* Rollback that keeps what the transaction had written
RollbackKeepsPending(committed, pending) == pending

\* a table after the connection is dropped without conn.commit(): the
\* rows written in the open transaction are gone
Rollback(committed, pending) == committed

\* record_sensor_data when the statement step raises (sqlite3.Error): the
\* exception leaves the handler, conn.commit() is never reached, and what
\* was done in memory before the statement stays done
RecordSensorDataFailsCall(c, id, f, step) ==
  /\ FreeSlot(c)
  /\ LET k == StepIndex(step)
         rows == Append(sensor_readings,
                        [equipment_id |-> id, timestamp |-> clock + 1, features |-> f])
         historical_data == IF k > 2 THEN HistoricalData(rows, id) ELSE <<>>
         det == IF k > 2 THEN RetrainIfDue(anomaly_detector, historical_data)
                ELSE anomaly_detector
     IN  /\ anomaly_detector' = det
         /\ \E verdict \in (IF k > 2 THEN Predict(det, FeatureVector(f)) ELSE {<<0, 0>>}) :
              LET prediction == verdict[1]
                  confidence == verdict[2]
                  cls == Classify(prediction, confidence)
              IN  \* the statements between the verdict and the commit run
                  \* only for an anomalous verdict, the last three only
                  \* once the name of the unit has been read
                  /\ k \in 3..6 => prediction = -1
                  /\ k \in 5..6 => id \in DOMAIN equipment
                  /\ k = 7 => (prediction = -1 => id \in DOMAIN equipment)
                  /\ sensor_readings' = Rollback(sensor_readings, rows)
                  /\ predictions' =
                       Rollback(predictions,
                                IF k > 3 /\ prediction = -1
                                THEN Append(predictions,
                                       [equipment_id |-> id, timestamp |-> clock + 1,
                                        prediction_type |-> "anomaly_detected",
                                        confidence |-> confidence,
                                        predicted_failure_days |-> 7,
                                        recommendation |->
                                          GenerateRecommendation(f, cls.status)])
                                ELSE predictions)
                  /\ alerts' =
                       Rollback(alerts,
                                IF k > 5 /\ prediction = -1
                                THEN Append(alerts,
                                       [equipment_id |-> id, timestamp |-> clock + 1,
                                        severity |-> cls.severity[1],
                                        description |->
                                          GenerateRecommendation(f, cls.status),
                                        acknowledged |-> 0])
                                ELSE alerts)
                  /\ equipment' =
                       Rollback(equipment,
                                IF k > 6
                                THEN UpdateStatus(equipment, id, prediction, cls.status)
                                ELSE equipment)
                  /\ task' = [task EXCEPT ![c] = RaisedTask]
                  /\ last' =
                       [op |-> "ingest", caller |-> c, equipment_id |-> id,
                        features |-> f, historical_data |-> historical_data,
                        prediction |-> prediction, confidence |-> confidence,
                        status |-> cls.status, severity |-> cls.severity,
                        alert_created |-> FALSE, raised |-> TRUE,
                        status_before |-> IF id \in DOMAIN equipment
                                          THEN equipment[id] ELSE "none"]
  /\ UNCHANGED <<active_connections, ws, clock, maintenance_schedule>>

\* the same when the call came through the route POST /api/sensor-data
RecordSensorDataFails(c, id, f, step) ==
  RecordSensorDataFailsCall(c, id, f, step) /\ UNCHANGED generator

\* await connection.send_json(message) completes or raises, and broadcast
\* runs on to its next suspension point or to its end; the await has no
\* timeout, so on a connection whose peer takes no data it does neither
SendReturns(c, ok) ==
  /\ task[c].pc = "sending"
  /\ ws[task[c].connection] # "stalled"
  /\ ok => ws[task[c].connection] = "open"
  /\ LET t == [task[c] EXCEPT !.disconnected =
                                IF ok THEN @ ELSE Append(@, task[c].connection)]
         b == Advance(t, active_connections)
     IN  /\ active_connections' = b.conns
         /\ task' = Interfere([task EXCEPT ![c] = b.task], c,
                              b.conns # active_connections)
  /\ UNCHANGED <<equipment, sensor_readings, predictions, alerts, anomaly_detector,
                 ws, last, clock, generator, maintenance_schedule>>

\* ConnectionManager.connect, called on entry to websocket_endpoint; a new
\* WebSocket object is the next unused one
Connect(w) ==
  /\ ws[w] = "unopened"
  /\ \A v \in WebSockets : v < w => ws[v] # "unopened"
  /\ active_connections' = Append(active_connections, w)
  /\ ws' = [ws EXCEPT ![w] = "open"]
  /\ task' = Interfere(task, 0, TRUE)
  /\ UNCHANGED <<equipment, sensor_readings, predictions, alerts, anomaly_detector,
                 last, clock, generator, maintenance_schedule>>

\* websocket_endpoint: the loop raises (WebSocketDisconnect or any other
\* exception) and the handler calls ConnectionManager.disconnect
EndpointDisconnect(w) ==
  /\ ws[w] = "open"
  /\ LET p == Prune(active_connections, <<w>>)
     IN  /\ active_connections' = p.conns
         /\ ws' = [ws EXCEPT ![w] = IF p.ok THEN "closed" ELSE "crashed"]
         /\ task' = Interfere(task, 0, p.ok)
  /\ UNCHANGED <<equipment, sensor_readings, predictions, alerts, anomaly_detector,
                 last, clock, generator, maintenance_schedule>>

\* AcknowledgeAlert that flips the flag
AcknowledgeAlertToggle(alert_id) ==
  /\ alert_id \in 1..Len(alerts)
  /\ alerts' = [alerts EXCEPT ![alert_id].acknowledged = 1 - @]
  /\ UNCHANGED <<equipment, sensor_readings, predictions, anomaly_detector,
                 active_connections, ws, task, last, clock, generator,
                 maintenance_schedule>>

\* the peer of an open connection stops taking data for good: from then
\* on a send_json on it stays suspended
Stall(w) ==
  /\ ws[w] = "open"
  /\ ws' = [ws EXCEPT ![w] = "stalled"]
  /\ UNCHANGED <<equipment, sensor_readings, predictions, alerts, anomaly_detector,
                 active_connections, task, last, clock, generator,
                 maintenance_schedule>>

\* acknowledge_alert for an alert id that exists
AcknowledgeAlert(alert_id) ==
  /\ alert_id \in 1..Len(alerts)
  /\ alerts[alert_id].acknowledged = 0
  /\ alerts' = [alerts EXCEPT ![alert_id].acknowledged = 1]
  /\ UNCHANGED <<equipment, sensor_readings, predictions, anomaly_detector,
                 active_connections, ws, task, last, clock, generator,
                 maintenance_schedule>>

\* create_maintenance_task: one INSERT INTO maintenance_schedule
CreateMaintenanceTask(id) ==
  /\ Len(maintenance_schedule) < MaxMaintenance
  /\ maintenance_schedule' =
       Append(maintenance_schedule, [equipment_id |-> id, status |-> "pending"])
  /\ UNCHANGED <<equipment, sensor_readings, predictions, alerts, anomaly_detector,
                 active_connections, ws, task, last, clock, generator>>

\* generate_sensor_data at await record_sensor_data(reading): the reading
\* of the current unit is built and the handler is called; the call may
\* commit only while allowed is TRUE and may be ended by a failing
\* statement at any time.  The generator goes on in the same step unless
\* the handler is suspended in a broadcast.
GeneratorSubmit(allowed) ==
  /\ generator.pc = "submit"
  /\ LET eq_id == EquipmentOrder[generator.idx]
         f == GeneratedReading(eq_id, generator.iteration)
     IN  \E c \in Callers :
           /\ \/ allowed /\ RecordSensorDataCall(c, eq_id, f)
              \/ \E i \in 1..Len(PersistenceSteps) :
                   RecordSensorDataFailsCall(c, eq_id, f, PersistenceSteps[i])
           /\ generator' =
                [generator EXCEPT
                   !.caller = c,
                   !.submitted = eq_id,
                   !.failed = (task'[c].pc = "raised"),
                   !.pc = CASE task'[c].pc = "returned" -> "pause"
                            [] task'[c].pc = "raised" -> "backoff"
                            [] OTHER -> "called"]

\* the broadcast the generator's call was suspended in has ended: the call
\* returns, or its exception reaches the except branch of the generator
GeneratorReturn ==
  /\ generator.pc = "called"
  /\ task[generator.caller].pc \in {"returned", "raised"}
  /\ generator' =
       [generator EXCEPT
          !.failed = (task[generator.caller].pc = "raised"),
          !.pc = IF task[generator.caller].pc = "returned"
                 THEN "pause" ELSE "backoff"]
  /\ UNCHANGED <<equipment, sensor_readings, predictions, alerts, anomaly_detector,
                 active_connections, ws, task, last, clock, maintenance_schedule>>

\* an asyncio.sleep of the generator returns: the one before the loop, the
\* one after a unit (the for loop takes the next unit, or ends, iteration
\* is incremented and the sleep between cycles begins), the one between
\* cycles, or the one of the except branch (the while loop starts the for
\* loop again, iteration as it was)
GeneratorWakes ==
  /\ generator.pc \in {"startup", "pause", "cycle_wait", "backoff"}
  /\ generator' =
       CASE generator.pc = "pause" /\ generator.idx < Len(EquipmentOrder) ->
              [generator EXCEPT !.pc = "submit", !.idx = @ + 1]
         [] generator.pc = "pause" /\ generator.idx = Len(EquipmentOrder) ->
              [generator EXCEPT !.pc = "cycle_wait", !.iteration = @ + 1]
         [] OTHER ->
              [generator EXCEPT !.pc = "submit", !.idx = 1]
  /\ UNCHANGED <<equipment, sensor_readings, predictions, alerts, anomaly_detector,
                 active_connections, ws, task, last, clock, maintenance_schedule>>

\* get_dashboard_stats: four COUNT(*) queries and the response computed
\* from them (every stored prediction is within the last 30 days;
\* equipment_online is kept as the pair it is formatted from)
GetDashboardStats ==
  LET total_equipment == Cardinality(DOMAIN equipment)
      healthy_equipment == Cardinality({e \in DOMAIN equipment : equipment[e] = "healthy"})
      active_alerts == Cardinality({i \in 1..Len(alerts) : alerts[i].acknowledged = 0})
      predictions_last_month == Len(predictions)
      estimated_savings == predictions_last_month * SavingsPerPrediction
  IN  /\ last' =
           [op |-> "dashboard",
            response |->
              [equipment_online |-> <<healthy_equipment, total_equipment>>,
               active_alerts |-> active_alerts,
               cost_saved_mtd |-> estimated_savings,
               total_equipment |-> total_equipment,
               healthy_count |-> healthy_equipment,
               warning_count |-> total_equipment - healthy_equipment - active_alerts,
               critical_count |-> active_alerts]]
      /\ UNCHANGED <<equipment, sensor_readings, predictions, alerts, anomaly_detector,
                     active_connections, ws, task, clock, generator,
                     maintenance_schedule>>

\* a direct call of anomaly_detector.train on the stored window of a unit
TrainCall(id) ==
  /\ \A c \in Callers : task[c].pc # "sending"
  /\ LET data == HistoricalData(sensor_readings, id)
     IN  /\ anomaly_detector' = Train(anomaly_detector, data)
         /\ last' = [NoCall EXCEPT !.op = "train", !.equipment_id = id,
                                   !.historical_data = data]
  /\ UNCHANGED <<equipment, sensor_readings, predictions, alerts,
                 active_connections, ws, task, clock, generator,
                 maintenance_schedule>>

\* at most maxIngest handler invocations, by callers, on ids x samples
Ingests(maxIngest, callers, ids, samples) ==
  \E c \in callers, id \in ids, f \in samples :
    clock < maxIngest /\ RecordSensorData(c, id, f)

Sends == \E c \in Callers, ok \in BOOLEAN : SendReturns(c, ok)

\* at most maxObservers WebSocket objects ever connect
Connects(maxObservers) == \E w \in 1..maxObservers : Connect(w)

Disconnects == \E w \in WebSockets : EndpointDisconnect(w)

Acknowledges(ids) == \E alert_id \in ids : AcknowledgeAlert(alert_id)

\* POST /api/sensor-data with a JSON body: the body is validated against
\* SensorReading and record_sensor_data is called only with a valid one
PostSensorData(c, body) ==
  IF Validate(body)
  THEN RecordSensorData(c, body.equipment_id[1], ParseReading(body))
  ELSE /\ FreeSlot(c)
       /\ task' = [task EXCEPT ![c] = RejectedTask]
       /\ last' = [op |-> "rejected", caller |-> c, body |-> body]
       /\ UNCHANGED <<equipment, sensor_readings, predictions, alerts,
                      anomaly_detector, active_connections, ws, clock, generator,
                      maintenance_schedule>>

\* the bodies posted: complete ones, and ones with a single key left out
BodiesTried ==
  {Body(1, f) : f \in Samples}
    \cup {Without(Body(1, Spiked), k) : k \in ReadingFields}

Posts(maxIngest, callers) ==
  \E c \in callers, body \in BodiesTried :
    clock < maxIngest /\ PostSensorData(c, body)

\* readings around each threshold of generate_recommendation, in tenths
RecommendInputs ==
  [temperature : {790, 800, 801, 850}, vibration : {20, 70, 71},
   pressure : {<<>>, <<0>>, <<1400>>, <<1401>>},
   power_consumption : {850}, efficiency : {799, 800, 900}]

\* a call of generate_recommendation(reading, status)
Recommend(f, status) ==
  /\ last' = [op |-> "recommend", features |-> f, status |-> status,
              recommendation |-> GenerateRecommendation(f, status)]
  /\ UNCHANGED <<equipment, sensor_readings, predictions, alerts, anomaly_detector,
                 active_connections, ws, task, clock, generator,
                 maintenance_schedule>>

\* a handler invocation, by callers on ids x samples, that a failing
\* statement ends
Fails(callers, ids, samples) ==
  \E c \in callers, id \in ids, f \in samples :
    \E i \in 1..Len(PersistenceSteps) :
      RecordSensorDataFails(c, id, f, PersistenceSteps[i])

\* the pipeline on every input, with one observer and acknowledgement of
\* the first alert
Next ==
  \/ Ingests(MaxIngest, Callers, InputIds, Samples)
  \/ Sends
  \/ Connects(1)
  \/ Disconnects
  \/ Acknowledges({1})

Spec == Init /\ [][Next]_vars

\* the fan-out with MaxObservers observers, one handler invocation at a
\* time, on the samples of one unit
NextFanout ==
  \/ Ingests(FanoutIngest, {1}, {1}, {Spiked})
  \/ Sends
  \/ Connects(MaxObservers)
  \/ Disconnects

SpecFanout == Init /\ [][NextFanout]_vars

\* the pipeline, one handler invocation at a time and without observers,
\* together with direct calls of AnomalyDetector.train
NextTrain ==
  \/ Ingests(MaxIngest, {1}, InputIds, Samples)
  \/ \E id \in InputIds : TrainCall(id)

SpecTrain == Init /\ [][NextTrain]_vars

\* the pipeline on the samples of one unit when SQLite may fail under it,
\* with one observer
NextFailure ==
  \/ Ingests(MaxIngest, {1}, {1}, {Spiked})
  \/ Fails({1}, {1}, {Spiked})
  \/ Sends
  \/ Connects(1)

SpecFailure == Init /\ [][NextFailure]_vars

\* the HTTP route with valid and invalid bodies, with one observer
NextValidate ==
  \/ Posts(MaxIngest, {1})
  \/ Sends
  \/ Connects(1)

SpecValidate == Init /\ [][NextValidate]_vars

\* generate_recommendation on its own, on every reading of RecommendInputs
NextRecommend ==
  \E f \in RecommendInputs, status \in {"warning", "critical"} : Recommend(f, status)

SpecRecommend == Init /\ [][NextRecommend]_vars

\* the operations that write the database: ingestions of one unit,
\* acknowledgements and maintenance tasks, without observers
NextHistory ==
  \/ Ingests(MaxIngest, {1}, {1}, Samples)
  \/ Acknowledges(1..MaxIngest)
  \/ \E id \in {1} : CreateMaintenanceTask(id)

SpecHistory == Init /\ [][NextHistory]_vars

\* the fan-out when a peer may stop taking data; a send_json that can
\* complete or raise is resumed by the event loop
NextStall ==
  \/ Ingests(FanoutIngest, {1}, {1}, {Spiked})
  \/ Sends
  \/ Connects(2)
  \/ \E w \in WebSockets : Stall(w)

SpecStall == Init /\ [][NextStall]_vars /\ WF_vars(Sends)

\* the process on a database it has just created
InitFresh == Init /\ sensor_readings = <<>>

\* the generator alone on a new database, without observers, so that its
\* calls never suspend; the event loop resumes the generator after each
\* sleep
NextGenerator ==
  \/ GeneratorSubmit(clock < MaxGenerated)
  \/ GeneratorWakes

SpecGenerator ==
  InitFresh /\ [][NextGenerator]_vars /\ WF_vars(NextGenerator)

\* the generator with one observer, up to the first reading it stores; the
\* event loop also resumes a send_json that can complete or raise
NextGeneratorFanout ==
  \/ GeneratorSubmit(clock < FanoutIngest)
  \/ GeneratorReturn
  \/ GeneratorWakes
  \/ Sends
  \/ Connects(1)

SpecGeneratorFanout ==
  Init /\ [][NextGeneratorFanout]_vars
       /\ WF_vars(GeneratorSubmit(clock < FanoutIngest) \/ GeneratorReturn \/ GeneratorWakes)
       /\ WF_vars(Sends)

\* ingestions of two units and acknowledgements, without observers, with
\* the dashboard read at any time
NextDashboard ==
  \/ Ingests(MaxIngest, {1}, {1, 5}, Samples)
  \/ Acknowledges(1..MaxIngest)
  \/ GetDashboardStats

SpecDashboard == Init /\ [][NextDashboard]_vars

\* ---------------------------------------------------------------- claims

\* the readings stored for a unit, oldest first
StoredFor(id) == SelectSeq(sensor_readings, LAMBDA r : r.equipment_id = id)

\* C1: a sample scored while the detector has never been fitted gets the
\* neutral verdict, not anomalous with confidence 50 (500 tenths).
C1_NeutralVerdict ==
  (last.op = "ingest" /\ ~anomaly_detector.is_trained)
    => (last.prediction # -1 /\ last.confidence = 500)

\* C2: an ingestion for unit a leaves the training window, the fitted flag
\* and the fitted scorer that serve any other unit b unchanged.
C2_PerUnitModelState ==
  [][\A a \in InputIds, b \in InputIds :
       (clock' # clock /\ last'.equipment_id = a /\ b # a)
         => ModelStateOf(b)' = ModelStateOf(b)]_vars

\* C3: the status and severity of an ingestion are fixed by its verdict:
\* anomalous above 85 is critical/critical, anomalous at or below 85 is
\* warning/warning, not anomalous is healthy with no severity and no alert.
C3_Classify ==
  last.op = "ingest" =>
    /\ (last.prediction = -1 /\ last.confidence > 850)
         => (last.status = "critical" /\ last.severity = <<"critical">>)
    /\ (last.prediction = -1 /\ last.confidence <= 850)
         => (last.status = "warning" /\ last.severity = <<"warning">>)
    /\ last.prediction # -1
         => (last.status = "healthy" /\ last.severity = <<>> /\ ~last.alert_created)

C3_Witness ==
  /\ last.op = "ingest"
  /\ last.prediction = -1
  /\ last.confidence = 850
  /\ last.status = "warning"
  /\ last.alert_created

C5_NoRecovery ==
  [][/\ (clock' # clock /\ last'.prediction # -1) => equipment' = equipment
     /\ \A e \in EquipmentIds :
          equipment[e] \in {"warning", "critical"}
            => equipment'[e] \in {"warning", "critical"}]_vars

C5_Witness ==
  /\ last.op = "ingest"
  /\ last.prediction = 1
  /\ last.equipment_id \in EquipmentIds
  /\ last.status_before \in {"warning", "critical"}
  /\ equipment[last.equipment_id] = last.status_before

\* C6: the equipment_status an ingestion returns is the status the
\* equipment table holds for the unit once the ingestion has committed.
C6_ReturnedStatus ==
  (last.op = "ingest" /\ ~last.raised /\ last.equipment_id \in EquipmentIds)
    => task[last.caller].response[1].equipment_status = equipment[last.equipment_id]

\* C7: the window read for training never holds more than 200 rows, and it
\* is the unit's min(n, 200) most recent readings, the i-th entry being the
\* i-th most recent; the fitted data is never longer than 200 either.
C7_WindowBound ==
  /\ Len(anomaly_detector.fitted_on) <= 200
  /\ last.op = "ingest" =>
       /\ Len(last.historical_data) <= 200
       /\ ~last.raised =>
            LET own == StoredFor(last.equipment_id)
                n == Len(own)
            IN  /\ Len(last.historical_data) = IF n > 200 THEN 200 ELSE n
                /\ \A i \in 1..Len(last.historical_data) :
                     last.historical_data[i] = FeatureVector(own[n + 1 - i].features)

C7_Witness ==
  /\ last.op = "ingest"
  /\ ~last.raised
  /\ Len(StoredFor(last.equipment_id)) = 202
  /\ Len(last.historical_data) = 200
  /\ anomaly_detector.fitted_on = last.historical_data
  /\ last.historical_data[1] # last.historical_data[2]

\* C8: a call of train, direct or from the handler, on a window of fewer
\* than 10 rows leaves the detector as it was (fitted data and is_trained).
C8_ShortWindowNoOp ==
  [][((clock' # clock \/ (last'.op = "train" /\ last' # last))
        /\ Len(last'.historical_data) < 10)
       => anomaly_detector' = anomaly_detector]_vars

C8_Witness ==
  /\ last.op = "train"
  /\ Len(last.historical_data) \in 1..9
  /\ anomaly_detector.is_trained
  /\ anomaly_detector.fitted_on # last.historical_data

\* C9 as claimed: every ingestion whose window holds at least 10 rows
\* leaves the detector fitted on that window.
C9_RefitAtMinimum ==
  (last.op = "ingest" /\ Len(last.historical_data) >= 10)
    => anomaly_detector = [is_trained |-> TRUE, fitted_on |-> last.historical_data]

\* C9 as amended: every ingestion whose window holds at least 20 rows
\* leaves the detector fitted on exactly that window, and its verdict comes
\* from the fitted scorer (1 or -1, never the 0 of an unfitted detector).
C9_RefitAtGate ==
  (last.op = "ingest" /\ Len(last.historical_data) >= 20)
    => /\ anomaly_detector = [is_trained |-> TRUE, fitted_on |-> last.historical_data]
       /\ last.prediction \in {1, -1}

C9_Witness ==
  /\ last.op = "ingest"
  /\ Len(last.historical_data) = 20
  /\ anomaly_detector = [is_trained |-> TRUE, fitted_on |-> last.historical_data]
  /\ last.prediction \in {1, -1}

\* C10: a broadcast that ran with no change of the registry by anyone else
\* attempted delivery once to each observer registered when it began, in
\* order, ended without an error, and left the registry equal to the one
\* it began with minus the observers whose delivery failed.
C10_BroadcastPass ==
  \A c \in Callers :
    (task[c].pc \in {"returned", "raised"} /\ task[c].message # <<>>
       /\ ~task[c].interfered)
      => /\ task[c].attempted = task[c].registered
         /\ task[c].pc = "returned"
         /\ task[c].ended =
              SelectSeq(task[c].registered,
                        LAMBDA w : \A i \in 1..Len(task[c].disconnected) :
                                     task[c].disconnected[i] # w)

C10_Witness ==
  \E c \in Callers :
    /\ task[c].pc = "returned"
    /\ ~task[c].interfered
    /\ task[c].registered = <<1, 2, 3>>
    /\ task[c].attempted = <<1, 2, 3>>
    /\ task[c].disconnected = <<2>>
    /\ task[c].ended = <<1, 3>>
    /\ active_connections = <<1, 3>>

\* the set of entries of a sequence
Range(q) == {q[i] : i \in 1..Len(q)}

\* C11: a broadcast that has ended attempted delivery to exactly the
\* observers that were registered when it began, whatever connected or
\* disconnected while it was suspended in a delivery.
C11_SnapshotPass ==
  \A c \in Callers :
    (task[c].pc \in {"returned", "raised"} /\ task[c].message # <<>>)
      => Range(task[c].attempted) = Range(task[c].registered)

\* C12: a broadcast never ends with an error: the ingestion that started it
\* returns its normal result, whichever deliveries failed and whoever else
\* removed an observer in the meantime.
C12_BroadcastNeverRaises ==
  \A c \in Callers :
    task[c].message # <<>> => task[c].pc \in {"sending", "returned"}

\* C13: an ingestion runs as one step that no other ingestion enters: the
\* step stores the reading after all earlier ones, reads a window that
\* begins with that reading and holds every earlier reading of the unit (up
\* to 200), refits and scores on that window, and appends the prediction
\* and alert and writes the status of that verdict; steps other than
\* ingestions touch no reading, prediction, status or detector; rows are
\* stored in the order the ingestions began.
C13_Serialized ==
  [][/\ (clock' # clock /\ ~last'.raised) =>
          LET id == last'.equipment_id
              n == Len(StoredFor(id))
              w == last'.historical_data
          IN  /\ sensor_readings' =
                   Append(sensor_readings,
                          [equipment_id |-> id, timestamp |-> clock',
                           features |-> last'.features])
              /\ \A i \in 1..Len(sensor_readings) :
                   sensor_readings[i].timestamp < clock'
              /\ Len(w) = IF n + 1 > 200 THEN 200 ELSE n + 1
              /\ w[1] = FeatureVector(last'.features)
              /\ Tail(w) = SubSeq(HistoricalData(sensor_readings, id), 1, Len(w) - 1)
              /\ Len(w) >= 20 => anomaly_detector'.fitted_on = w
              /\ Len(w) < 20 => anomaly_detector' = anomaly_detector
              /\ <<last'.prediction, last'.confidence>>
                   \in Predict(anomaly_detector', FeatureVector(last'.features))
              /\ last'.alert_created =>
                   /\ predictions'[Len(predictions')].timestamp = clock'
                   /\ alerts'[Len(alerts')].timestamp = clock'
                   /\ equipment'[id] = last'.status
     /\ clock' = clock =>
          UNCHANGED <<sensor_readings, predictions, equipment, anomaly_detector>>]_vars

\* two ingestions of unit 1 in flight together: the first is still
\* suspended in its broadcast when the second has run
C13_Witness ==
  /\ last.op = "ingest"
  /\ last.caller = 2
  /\ last.equipment_id = 1
  /\ last.alert_created
  /\ task[1].pc = "sending"
  /\ task[1].message # <<>>
  /\ task[1].message[1].equipment_id = 1
  /\ Len(last.historical_data) = 200
  /\ Len(predictions) = 2

\* C14: an ingestion in which a statement to the database fails ends with
\* an error for its caller and stores no reading, prediction or alert,
\* changes no equipment status and starts no broadcast.
C14_FailureAtomic ==
  [][(last' # last /\ last'.raised) =>
       /\ task'[last'.caller].pc = "raised"
       /\ task'[last'.caller].response = <<>>
       /\ sensor_readings' = sensor_readings
       /\ predictions' = predictions
       /\ alerts' = alerts
       /\ equipment' = equipment
       /\ task'[last'.caller].message = <<>>
       /\ \A d \in Callers \ {last'.caller} : task'[d] = task[d]
       /\ active_connections' = active_connections]_vars

\* the commit of an anomalous ingestion of unit 1 failed while an observer
\* was connected: the detector was refitted, nothing else is left of it
C14_Witness ==
  /\ last.op = "ingest"
  /\ last.raised
  /\ last.equipment_id = 1
  /\ last.prediction = -1
  /\ last.status = "critical"
  /\ Len(last.historical_data) = 20
  /\ anomaly_detector.fitted_on = last.historical_data
  /\ Len(sensor_readings) = 19
  /\ alerts = <<>>
  /\ equipment[1] = "healthy"
  /\ active_connections = <<1>>
  /\ task[1].pc = "raised"

\* C15: a request is rejected only when its body lacks one of equipment_id,
\* temperature, vibration, power_consumption, efficiency, and a rejection
\* changes no stored reading, prediction, alert, equipment status, nothing
\* of the detector and nothing of the observer registry; a body lacking one
\* of those fields never reaches the handler, so every ingestion and every
\* stored reading carries all five; a body that lacks only pressure is not
\* rejected.
C15_Validation ==
  [][/\ (last' # last /\ last'.op = "rejected") =>
          /\ \E k \in RequiredFields : last'.body[k] = <<>>
          /\ task'[last'.caller].pc = "rejected"
          /\ task'[last'.caller].response = <<>>
          /\ UNCHANGED <<sensor_readings, predictions, alerts, equipment,
                         anomaly_detector, active_connections, ws>>
     /\ clock' # clock =>
          /\ last'.op = "ingest"
          /\ \E b \in BodiesTried :
               /\ Validate(b)
               /\ last'.features = ParseReading(b)
               /\ last'.equipment_id = b.equipment_id[1]]_vars

\* a body without pressure was ingested and stored, then a body without
\* temperature was rejected and the stored reading is still the only one
C15_Witness ==
  /\ last.op = "rejected"
  /\ last.body.temperature = <<>>
  /\ last.body.pressure # <<>>
  /\ task[last.caller].pc = "rejected"
  /\ Len(sensor_readings) = 1
  /\ sensor_readings[1].features.pressure = <<>>
  /\ sensor_readings[1].features.temperature = Spiked.temperature

\* C16: every ingestion that commits stores one more reading for its unit
\* and is scored on its own, also when the unit's latest stored reading has
\* exactly the same values: the two are stored as two rows, and the window
\* of the second begins with both of them.
C16_NoDedup ==
  [][(clock' # clock /\ ~last'.raised) =>
       LET id == last'.equipment_id
           own == StoredFor(id)
           n == Len(own)
           after == SelectSeq(sensor_readings', LAMBDA r : r.equipment_id = id)
           w == last'.historical_data
       IN  /\ Len(after) = n + 1
           /\ after[n + 1].features = last'.features
           /\ SubSeq(after, 1, n) = own
           /\ <<last'.prediction, last'.confidence>>
                \in Predict(anomaly_detector', FeatureVector(last'.features))
           /\ (n >= 1 /\ own[n].features = last'.features) =>
                /\ Len(w) >= 2
                /\ w[1] = FeatureVector(last'.features)
                /\ w[2] = w[1]]_vars

\* the same sample was submitted twice to an empty database
C16_Witness ==
  /\ clock = 2
  /\ last.op = "ingest"
  /\ Len(sensor_readings) = 2
  /\ sensor_readings[1].equipment_id = sensor_readings[2].equipment_id
  /\ sensor_readings[1].features = sensor_readings[2].features
  /\ sensor_readings[1].timestamp # sensor_readings[2].timestamp
  /\ last.historical_data =
       <<FeatureVector(last.features), FeatureVector(last.features)>>

CoolingNote == "Temperature exceeds normal range. Check cooling system."
BearingsNote == "High vibration detected. Inspect bearings and alignment."
SealsNote == "Pressure levels elevated. Check seals and valves."
MaintenanceNote == "Efficiency below optimal. Schedule maintenance."
RuleNotes == <<CoolingNote, BearingsNote, SealsNote, MaintenanceNote>>
GenericNotes ==
  {"Multiple parameters show concerning trends. Immediate inspection recommended.",
   "Minor deviation detected. Monitor closely."}

\* C17: the recommendation holds the note of a rule exactly when the rule
\* holds for the reading (temperature > 80, vibration > 7, pressure present
\* and > 140, efficiency < 80), each rule on its own, each note once and in
\* the order temperature, vibration, pressure, efficiency; it is the one
\* generic note of the status exactly when no rule holds; temperature 85,
\* vibration 2, no pressure, efficiency 90 gives the cooling note alone.
C17_Recommendation ==
  last.op = "recommend" =>
    LET f == last.features
        r == last.recommendation
        holds == <<f.temperature > 800,
                   f.vibration > 70,
                   f.pressure # <<>> /\ f.pressure[1] > 1400,
                   f.efficiency < 800>>
        fired == {k \in 1..4 : holds[k]}
    IN  /\ \A k \in 1..4 : (RuleNotes[k] \in Range(r)) <=> holds[k]
        /\ fired # {} =>
             /\ Len(r) = Cardinality(fired)
             /\ \A i \in 1..Len(r), j \in 1..Len(r) :
                  i < j => \E a \in fired, b \in fired :
                             a < b /\ r[i] = RuleNotes[a] /\ r[j] = RuleNotes[b]
        /\ (fired = {}) <=> (Range(r) \cap GenericNotes # {})
        /\ fired = {} =>
             r = IF last.status = "critical"
                 THEN <<"Multiple parameters show concerning trends. Immediate inspection recommended.">>
                 ELSE <<"Minor deviation detected. Monitor closely.">>
        /\ (f.temperature = 850 /\ f.vibration = 20 /\ f.pressure = <<>>
              /\ f.efficiency = 900) => r = <<CoolingNote>>

\* a reading on which all four rules hold: four notes, in the fixed order
C17_Witness ==
  /\ last.op = "recommend"
  /\ last.features.temperature = 801
  /\ last.features.vibration = 71
  /\ last.features.pressure = <<1401>>
  /\ last.features.efficiency = 799
  /\ last.recommendation = RuleNotes

\* C18: no step removes or changes a stored prediction, and no step
\* removes a stored alert or changes anything of it but its acknowledged
\* flag, which only goes from 0 to 1 and never back.
C18_AppendOnly ==
  [][/\ Len(predictions') >= Len(predictions)
     /\ \A i \in 1..Len(predictions) : predictions'[i] = predictions[i]
     /\ Len(alerts') >= Len(alerts)
     /\ \A i \in 1..Len(alerts) :
          /\ [alerts'[i] EXCEPT !.acknowledged = 0]
               = [alerts[i] EXCEPT !.acknowledged = 0]
          /\ alerts'[i].acknowledged \in {0, 1}
          /\ alerts[i].acknowledged = 1 => alerts'[i].acknowledged = 1]_vars

\* the first alert was acknowledged, a second alert was raised and a
\* maintenance task was created
C18_Witness ==
  /\ Len(alerts) = 2
  /\ Len(predictions) = 2
  /\ alerts[1].acknowledged = 1
  /\ alerts[2].acknowledged = 0
  /\ Len(maintenance_schedule) = 1

\* C19: every broadcast that is suspended in a delivery ends, and with it
\* the ingestion that started it, also when the peer of an observer takes
\* no data.
C19_BroadcastTerminates ==
  \A c \in Callers :
    (task[c].pc = "sending") ~> (task[c].pc \in {"returned", "raised"})

\* C20: a unit whose own submissions never fail is submitted by the
\* generator again and again, also when the submissions of another unit
\* fail in every cycle.
C20_OthersNotHalted ==
  \A e \in EquipmentIds :
    [](~(generator.submitted = e /\ generator.failed))
      => []<>(generator.submitted = e)

\* C21: the steps of an ingestion take effect in the order persist,
\* retrain, score, classify, emit and transition, notify: the window the
\* detector is refitted on begins with the sample, the verdict is one the
\* refitted detector gives, the status is the one classified from that
\* verdict, and whenever an alert event has been handed to broadcast the
\* reading, the prediction and the alert of its sample are stored (and,
\* right after the ingestion, the unit's status is the one of the event).
C21_StepOrder ==
  /\ (last.op = "ingest" /\ ~last.raised) =>
       LET w == last.historical_data
           f == last.features
           cls == Classify(last.prediction, last.confidence)
       IN  /\ sensor_readings[Len(sensor_readings)] =
                [equipment_id |-> last.equipment_id, timestamp |-> clock,
                 features |-> f]
           /\ w[1] = FeatureVector(f)
           /\ Len(w) >= 20 => anomaly_detector.fitted_on = w
           /\ <<last.prediction, last.confidence>>
                \in Predict(anomaly_detector, FeatureVector(f))
           /\ last.status = cls.status
           /\ last.severity = cls.severity
           /\ last.alert_created <=> last.prediction = -1
           /\ last.alert_created =>
                /\ predictions[Len(predictions)].timestamp = clock
                /\ predictions[Len(predictions)].confidence = last.confidence
                /\ alerts[Len(alerts)].timestamp = clock
                /\ alerts[Len(alerts)].severity = last.status
                /\ equipment[last.equipment_id] = last.status
                /\ task[last.caller].message =
                     <<[type |-> "alert", equipment_id |-> last.equipment_id,
                        status |-> last.status, confidence |-> last.confidence]>>
           /\ ~last.alert_created => task[last.caller].message = <<>>
  /\ \A c \in Callers :
       task[c].message # <<>> =>
         LET m == task[c].message[1]
         IN  \E i \in 1..Len(alerts) :
               /\ alerts[i].equipment_id = m.equipment_id
               /\ alerts[i].severity = m.status
               /\ \E j \in 1..Len(predictions) :
                    /\ predictions[j].timestamp = alerts[i].timestamp
                    /\ predictions[j].equipment_id = m.equipment_id
                    /\ predictions[j].confidence = m.confidence
               /\ \E k \in 1..Len(sensor_readings) :
                    /\ sensor_readings[k].timestamp = alerts[i].timestamp
                    /\ sensor_readings[k].equipment_id = m.equipment_id

\* an ingestion of unit 1 refitted the detector on a window of 200 rows
\* that begins with its sample, was classified critical, and its alert
\* event is being delivered to the observer with everything stored
C21_Witness ==
  /\ last.op = "ingest"
  /\ last.alert_created
  /\ last.status = "critical"
  /\ Len(last.historical_data) = 200
  /\ anomaly_detector.fitted_on = last.historical_data
  /\ task[last.caller].pc = "sending"
  /\ task[last.caller].attempted = <<1>>
  /\ alerts[Len(alerts)].timestamp = clock
  /\ equipment[last.equipment_id] = "critical"

\* C22: the spikes of a designated unit are 20 cycles apart: of the
\* readings the generator has stored for unit 1 or unit 5, one per cycle,
\* any two that carry a spike are at least 20 readings apart, also when a
\* cycle was cut short by a failure.
C22_SpikesTwentyApart ==
  \A e \in {1, 5} :
    LET own == StoredFor(e)
    IN  \A i \in 1..Len(own), j \in 1..Len(own) :
          (i < j /\ own[i].features # BaseParams[e] /\ own[j].features # BaseParams[e])
            => j - i >= 20

\* C23: for every unit of the equipment table the status is healthy,
\* warning or critical; it is healthy exactly when no alert is stored for
\* the unit; otherwise it is the severity of the unit's latest alert; and
\* the unit has as many predictions as alerts.
C23_StatusMatchesAlerts ==
  \A e \in EquipmentIds :
    LET al == SelectSeq(alerts, LAMBDA a : a.equipment_id = e)
        pr == SelectSeq(predictions, LAMBDA q : q.equipment_id = e)
    IN  /\ equipment[e] \in {"healthy", "warning", "critical"}
        /\ (equipment[e] = "healthy") <=> (al = <<>>)
        /\ al # <<>> => equipment[e] = al[Len(al)].severity
        /\ Len(pr) = Len(al)

\* unit 1 got a critical alert, which was acknowledged, then a warning
\* alert: its status is warning
C23_Witness ==
  /\ Len(alerts) = 2
  /\ alerts[1].equipment_id = 1
  /\ alerts[2].equipment_id = 1
  /\ alerts[1].severity = "critical"
  /\ alerts[1].acknowledged = 1
  /\ alerts[2].severity = "warning"
  /\ equipment[1] = "warning"
  /\ Len(predictions) = 2

\* C24: an observer is removed from the registry at most once: no
\* list.remove is ever executed for an observer that is not in the list,
\* neither by disconnect in the observer's websocket_endpoint nor by the
\* pruning loop of a broadcast, and the registry never holds an observer
\* twice.
C24_RemovedAtMostOnce ==
  /\ \A w \in WebSockets : ws[w] # "crashed"
  /\ \A c \in Callers : ~(task[c].pc = "raised" /\ task[c].message # <<>>)
  /\ \A i \in 1..Len(active_connections), j \in 1..Len(active_connections) :
       i # j => active_connections[i] # active_connections[j]

\* the number of units of the equipment table with a given status
UnitsWithStatus(st) == Cardinality({e \in DOMAIN equipment : equipment[e] = st})

\* C25: the counts of a dashboard response partition the fleet:
\* healthy_count, warning_count and critical_count are not negative, add
\* up to total_equipment, and are the numbers of units whose status is
\* healthy, warning and critical.
C25_CountsPartition ==
  last.op = "dashboard" =>
    LET r == last.response
    IN  /\ r.healthy_count >= 0
        /\ r.warning_count >= 0
        /\ r.critical_count >= 0
        /\ r.healthy_count + r.warning_count + r.critical_count = r.total_equipment
        /\ r.healthy_count = UnitsWithStatus("healthy")
        /\ r.warning_count = UnitsWithStatus("warning")
        /\ r.critical_count = UnitsWithStatus("critical")

====
